---- MODULE Spec2Model ----
(***************************************************************************)
(* Model of the text embedding service (src/app_embedding_service.py).     *)
(*                                                                         *)
(* The process-wide state is the global `model` (the loaded capability or  *)
(* None) and the position of the `lifespan` context manager.  Every        *)
(* request handler is an `async def` without an await in its body, so a    *)
(* handler runs to completion on the event loop: one action per handler.   *)
(* A request, its response and the handler's locals live for one HTTP      *)
(* call: Respond sends the response and forgets them.                      *)
(* The capability (SentenceTransformer.encode) is opaque: a call either    *)
(* raises or returns one vector per input text, in input order.            *)
(*                                                                         *)
(* Texts are sequences of characters.  Scores are fixed-point numbers in   *)
(* units of 1/ScoreScale (five decimal places), one place finer than the   *)
(* four decimal places the similarity response is rounded to.              *)
(***************************************************************************)
EXTENDS Integers, Sequences, FiniteSets

VARIABLES
    model,       \* the global `model`: None or the loaded capability
    phase,       \* where `lifespan` stands: created, serving (at yield), stopped, failed
    req,         \* the last request dispatched to the application
    resp,        \* the response it was answered with
    encoded,     \* the call of model.encode made while handling it, or NoCall
    similarity,  \* the handler local `similarity` of compute_similarity, or NoScore
    served       \* whether a request handler has run in this process

vars == <<model, phase, req, resp, encoded, similarity, served>>

----------------------------------------------------------------------------
\* Bounds of the model

\* text lengths go up to LabelLimit + MaxOverLabel
MaxOverLabel == 2
\* small batches hold 0..MaxSmallBatch texts
MaxSmallBatch == 2
\* large batches hold up to MaxTexts + MaxOverBatch texts
MaxOverBatch == 1
\* scores are drawn within ScoreWindow units of each threshold
ScoreWindow == 6

----------------------------------------------------------------------------
\* Program constants

\* max_items of EmbedRequest.texts, and the handler's own limit
MaxTexts == 100
\* min_items of EmbedRequest.texts
MinTexts == 1
\* characters of a text kept in a response label
LabelLimit == 100
\* dimension reported by the service
EmbeddingDimension == 384
\* max_sequence_length reported by the service
MaxSequenceLength == 256
\* decimal places of the reported similarity
SimilarityDigits == 4
\* one score unit is 1/ScoreScale
ScoreScale == 100000

MODEL_NAME == "sentence-transformers/all-MiniLM-L6-v2"

None == "None"
Loaded == "SentenceTransformer(MODEL_PATH)"

NoReq == [endpoint |-> "none"]
NoResp == [status |-> 0, body |-> [detail |-> "none"]]
NoCall == [outcome |-> "none"]
NoScore == ScoreScale * 2

\* Python truthiness of the global: None is false, a loaded capability is true
Truthy(m) == m # None

----------------------------------------------------------------------------
\* Inputs

Alphabet == {"a", "b"}

Text(n, c) == [i \in 1..n |-> IF i % 2 = 1 THEN c ELSE "-"]

TextLens == {0, 1} \cup ((LabelLimit - 1)..(LabelLimit + MaxOverLabel))

Texts == {Text(n, c) : n \in TextLens, c \in Alphabet}

BatchSizes == (0..MaxSmallBatch) \cup ((MaxTexts - 1)..(MaxTexts + MaxOverBatch))

\* a batch of n texts: t1 at the odd positions, t2 at the even ones
Batch(n, t1, t2) == [i \in 1..n |-> IF i % 2 = 1 THEN t1 ELSE t2]

Outcomes == {"ok", "raise"}

\* thresholds of the interpretation, in score units
VerySimilarAbove == (8 * ScoreScale) \div 10
SimilarAbove == (6 * ScoreScale) \div 10
SomewhatSimilarAbove == (4 * ScoreScale) \div 10

Thresholds == {VerySimilarAbove, SimilarAbove, SomewhatSimilarAbove}

Scores ==
    {-ScoreScale, 0, ScoreScale}
        \cup UNION {(t - ScoreWindow)..(t + ScoreWindow) : t \in Thresholds}

----------------------------------------------------------------------------
\* The capability

\* the vector model.encode returns for one text: opaque, a function of the
\* text it was given and of the normalize flag
Vector(text, normalize) == [of |-> text, normalize |-> normalize]

\* model.encode(texts, normalize_embeddings=normalize): one vector per text, in order
encode(texts, normalize) == [i \in 1..Len(texts) |-> Vector(texts[i], normalize)]

\* embeddings[0] @ embeddings[1] of two normalized vectors: opaque, any score
\* in [-1, 1]; the vectors of one text have dot product 1
DotProducts(text1, text2) == IF text1 = text2 THEN {ScoreScale} ELSE Scores

----------------------------------------------------------------------------
\* Pure parts of the handlers

Min(a, b) == IF a < b THEN a ELSE b

HTTPException(status_code, detail) ==
    [status |-> status_code, body |-> [detail |-> detail]]

\* FastAPI's answer to a body that fails the EmbedRequest schema
RequestValidationError == [status |-> 422, body |-> [detail |-> "validation error"]]

\* the constraints of EmbedRequest.texts
EmbedRequestValid(texts) == Len(texts) >= MinTexts /\ Len(texts) <= MaxTexts

Ellipsis == <<".", ".", ".">>

\* variant: the label is cut from LabelLimit characters on
LabelAtLeast(text) ==
    IF Len(text) >= LabelLimit THEN SubSeq(text, 1, LabelLimit) \o Ellipsis ELSE text

\* text[:100] + "..." if len(text) > 100 else text
Label(text) ==
    IF Len(text) > LabelLimit THEN SubSeq(text, 1, LabelLimit) \o Ellipsis ELSE text

EmbeddingResult(text, embedding) == [text |-> text, embedding |-> embedding]

\* variant: the vectors are taken in the reverse of the input order
BuildResultsReversed(texts, embeddings) ==
    [i \in 1..Min(Len(texts), Len(embeddings)) |->
        EmbeddingResult(Label(texts[i]), embeddings[Len(embeddings) + 1 - i])]

\* for text, embedding in zip(request.texts, embeddings): results.append(...)
BuildResults(texts, embeddings) ==
    [i \in 1..Min(Len(texts), Len(embeddings)) |->
        EmbeddingResult(Label(texts[i]), embeddings[i])]

EmbedResponse(results) ==
    [status |-> 200,
     body |-> [embeddings |-> results,
               count |-> Len(results),
               dimension |-> EmbeddingDimension,
               model |-> MODEL_NAME]]

\* a call of model.encode: its arguments, how it ended, what it returned
EncodeCall(texts, normalize, outcome) ==
    [outcome |-> outcome, texts |-> texts, normalize |-> normalize,
     ret |-> IF outcome = "ok" THEN encode(texts, normalize) ELSE <<>>]

\* variant: no check of the global; the call on None raises inside the try
generate_embeddings_unguarded(m, texts, normalize, enc) ==
    IF Len(texts) = 0
    THEN [resp |-> HTTPException(400, "No texts provided"), encoded |-> NoCall]
    ELSE IF Len(texts) > MaxTexts
    THEN [resp |-> HTTPException(400, "Maximum 100 texts per request"),
          encoded |-> NoCall]
    ELSE IF enc = "raise" \/ ~Truthy(m)
    THEN [resp |-> HTTPException(500, "Embedding generation failed"),
          encoded |-> EncodeCall(texts, normalize, "raise")]
    ELSE [resp |-> EmbedResponse(BuildResults(texts, encode(texts, normalize))),
          encoded |-> EncodeCall(texts, normalize, "ok")]

\* variant: a failing call is answered with the results of the texts before
\* the last one
generate_embeddings_partial(m, texts, normalize, enc) ==
    IF ~Truthy(m)
    THEN [resp |-> HTTPException(503, "Model not loaded"), encoded |-> NoCall]
    ELSE IF Len(texts) = 0
    THEN [resp |-> HTTPException(400, "No texts provided"), encoded |-> NoCall]
    ELSE IF Len(texts) > MaxTexts
    THEN [resp |-> HTTPException(400, "Maximum 100 texts per request"),
          encoded |-> NoCall]
    ELSE IF enc = "raise"
    THEN [resp |-> EmbedResponse(BuildResults(SubSeq(texts, 1, Len(texts) - 1),
                                              encode(texts, normalize))),
          encoded |-> EncodeCall(texts, normalize, "raise")]
    ELSE [resp |-> EmbedResponse(BuildResults(texts, encode(texts, normalize))),
          encoded |-> EncodeCall(texts, normalize, "ok")]

\* generate_embeddings: the handler of POST /api/v1/embed, given the global
\* it reads, the validated request and what the capability call does
generate_embeddings(m, texts, normalize, enc) ==
    IF ~Truthy(m)
    THEN [resp |-> HTTPException(503, "Model not loaded"), encoded |-> NoCall]
    ELSE IF Len(texts) = 0
    THEN [resp |-> HTTPException(400, "No texts provided"), encoded |-> NoCall]
    ELSE IF Len(texts) > MaxTexts
    THEN [resp |-> HTTPException(400, "Maximum 100 texts per request"),
          encoded |-> NoCall]
    ELSE IF enc = "raise"
    THEN [resp |-> HTTPException(500, "Embedding generation failed"),
          encoded |-> EncodeCall(texts, normalize, "raise")]
    ELSE [resp |-> EmbedResponse(BuildResults(texts, encode(texts, normalize))),
          encoded |-> EncodeCall(texts, normalize, "ok")]

HealthResponse(m) ==
    [status |-> 200,
     body |-> [status |-> IF Truthy(m) THEN "healthy" ELSE "unhealthy",
               model_loaded |-> (m # None),
               model_name |-> MODEL_NAME,
               embedding_dimension |-> EmbeddingDimension,
               max_sequence_length |-> MaxSequenceLength]]

RootDocument ==
    [status |-> 200,
     body |-> [service |-> "Text Embedding Service",
               model |-> "MiniLM-L6-v2",
               version |-> "2.0.0",
               endpoints |-> {"/health", "/api/v1/embed", "/api/v1/model-info", "/docs"}]]

ModelInfoDocument ==
    [status |-> 200,
     body |-> [model_name |-> MODEL_NAME,
               model_type |-> "Sentence Transformer",
               base_model |-> "nreimers/MiniLM-L6-H384-uncased",
               embedding_dimension |-> EmbeddingDimension,
               max_sequence_length |-> MaxSequenceLength,
               normalization |-> "L2 normalization recommended"]]

\* variant: the document is returned whatever the global holds
get_model_info_unguarded(m) == ModelInfoDocument

\* get_model_info: the handler of GET /api/v1/model-info
get_model_info(m) ==
    IF ~Truthy(m) THEN HTTPException(503, "Model not loaded") ELSE ModelInfoDocument

\* one unit of the rounded similarity, in score units
RoundUnit == ScoreScale \div (10 ^ SimilarityDigits)

\* round(similarity, 4), in units of RoundUnit: to the nearest, ties to even
Round(s) ==
    LET q == s \div RoundUnit
        r == s % RoundUnit
    IN  IF 2 * r < RoundUnit THEN q
        ELSE IF 2 * r > RoundUnit THEN q + 1
        ELSE IF q % 2 = 0 THEN q ELSE q + 1

\* variant: the comparisons include the thresholds
InterpretationInclusive(s) ==
    IF s >= VerySimilarAbove THEN "Very similar"
    ELSE IF s >= SimilarAbove THEN "Similar"
    ELSE IF s >= SomewhatSimilarAbove THEN "Somewhat similar"
    ELSE "Not very similar"

\* variant: the two upper comparisons are taken in the wrong order
InterpretationMisordered(s) ==
    IF s > SimilarAbove THEN "Similar"
    ELSE IF s > VerySimilarAbove THEN "Very similar"
    ELSE IF s > SomewhatSimilarAbove THEN "Somewhat similar"
    ELSE "Not very similar"

\* the chain of conditional expressions of compute_similarity
Interpretation(s) ==
    IF s > VerySimilarAbove THEN "Very similar"
    ELSE IF s > SimilarAbove THEN "Similar"
    ELSE IF s > SomewhatSimilarAbove THEN "Somewhat similar"
    ELSE "Not very similar"

\* compute_similarity: the handler of POST /api/v1/similarity
compute_similarity(m, text1, text2, enc, dot) ==
    IF ~Truthy(m)
    THEN [resp |-> HTTPException(503, "Model not loaded"),
          encoded |-> NoCall, similarity |-> NoScore]
    ELSE IF enc = "raise"
    THEN [resp |-> HTTPException(500, "Similarity computation failed"),
          encoded |-> EncodeCall(<<text1, text2>>, TRUE, "raise"),
          similarity |-> NoScore]
    ELSE [resp |-> [status |-> 200,
                    body |-> [text1 |-> Label(text1),
                              text2 |-> Label(text2),
                              similarity |-> Round(dot),
                              interpretation |-> Interpretation(dot)]],
          encoded |-> EncodeCall(<<text1, text2>>, TRUE, "ok"),
          similarity |-> dot]

----------------------------------------------------------------------------
\* Lifecycle

Init ==
    /\ model = None
    /\ phase = "created"
    /\ req = NoReq
    /\ resp = NoResp
    /\ encoded = NoCall
    /\ similarity = NoScore
    /\ served = FALSE

\* variant: a failing load is swallowed and serving begins
StartupSwallow(load) ==
    /\ phase = "created"
    /\ model' = IF load = "ok" THEN Loaded ELSE model
    /\ phase' = "serving"
    /\ UNCHANGED <<req, resp, encoded, similarity, served>>

\* lifespan up to its yield: the load either returns, and the global is
\* assigned, or raises, and the exception leaves lifespan
Startup(load) ==
    /\ phase = "created"
    /\ IF load = "ok"
       THEN model' = Loaded /\ phase' = "serving"
       ELSE model' = model /\ phase' = "failed"
    /\ UNCHANGED <<req, resp, encoded, similarity, served>>

\* lifespan after its yield: the server has finished the requests in flight
Shutdown ==
    /\ phase = "serving"
    /\ req = NoReq
    /\ model' = None
    /\ phase' = "stopped"
    /\ UNCHANGED <<req, resp, encoded, similarity, served>>

----------------------------------------------------------------------------
\* Request handlers.  The event loop runs one handler at a time, each to
\* completion.

GetRoot ==
    /\ req = NoReq
    /\ req' = [endpoint |-> "GET /"]
    /\ resp' = RootDocument
    /\ encoded' = NoCall
    /\ similarity' = NoScore
    /\ served' = TRUE
    /\ UNCHANGED <<model, phase>>

GetHealth ==
    /\ req = NoReq
    /\ req' = [endpoint |-> "GET /health"]
    /\ resp' = HealthResponse(model)
    /\ encoded' = NoCall
    /\ similarity' = NoScore
    /\ served' = TRUE
    /\ UNCHANGED <<model, phase>>

\* variant: a failing capability call drops the global
PostEmbedReset(texts, normalize, enc) ==
    LET out == IF EmbedRequestValid(texts)
               THEN generate_embeddings(model, texts, normalize, enc)
               ELSE [resp |-> RequestValidationError, encoded |-> NoCall]
    IN  /\ req' = [endpoint |-> "POST /api/v1/embed",
                   texts |-> texts, normalize |-> normalize]
        /\ resp' = out.resp
        /\ encoded' = out.encoded
        /\ similarity' = NoScore
        /\ served' = TRUE
        /\ model' = IF out.resp.status = 500 THEN None ELSE model
        /\ UNCHANGED phase

\* POST /api/v1/embed: the body is validated against EmbedRequest, and only a
\* valid one reaches generate_embeddings
PostEmbed(texts, normalize, enc) ==
    LET out == IF EmbedRequestValid(texts)
               THEN generate_embeddings(model, texts, normalize, enc)
               ELSE [resp |-> RequestValidationError, encoded |-> NoCall]
    IN  /\ req' = [endpoint |-> "POST /api/v1/embed",
                   texts |-> texts, normalize |-> normalize]
        /\ resp' = out.resp
        /\ encoded' = out.encoded
        /\ similarity' = NoScore
        /\ served' = TRUE
        /\ UNCHANGED <<model, phase>>

GetModelInfo ==
    /\ req = NoReq
    /\ req' = [endpoint |-> "GET /api/v1/model-info"]
    /\ resp' = get_model_info(model)
    /\ encoded' = NoCall
    /\ similarity' = NoScore
    /\ served' = TRUE
    /\ UNCHANGED <<model, phase>>

PostSimilarity(text1, text2, enc, dot) ==
    LET out == compute_similarity(model, text1, text2, enc, dot)
    IN  /\ req' = [endpoint |-> "POST /api/v1/similarity",
                   text1 |-> text1, text2 |-> text2]
        /\ resp' = out.resp
        /\ encoded' = out.encoded
        /\ similarity' = out.similarity
        /\ served' = TRUE
        /\ UNCHANGED <<model, phase>>

Embed ==
    /\ req = NoReq
    /\ \E n \in BatchSizes, t1 \in Texts, t2 \in Texts,
          normalize \in BOOLEAN, enc \in Outcomes :
            PostEmbed(Batch(n, t1, t2), normalize, enc)

Similarity ==
    /\ req = NoReq
    /\ \E text1 \in Texts, text2 \in Texts, enc \in Outcomes :
          \E dot \in DotProducts(text1, text2) :
              PostSimilarity(text1, text2, enc, dot)

\* the response is sent; the request and the handler's locals are gone
Respond ==
    /\ req # NoReq
    /\ req' = NoReq
    /\ resp' = NoResp
    /\ encoded' = NoCall
    /\ similarity' = NoScore
    /\ UNCHANGED <<model, phase, served>>

\* the process: requests are handled while lifespan is suspended at its yield
Next ==
    \/ \E load \in Outcomes : Startup(load)
    \/ phase = "serving" /\ GetRoot
    \/ phase = "serving" /\ GetHealth
    \/ phase = "serving" /\ Embed
    \/ phase = "serving" /\ GetModelInfo
    \/ phase = "serving" /\ Similarity
    \/ Respond
    \/ Shutdown

Spec == Init /\ [][Next]_vars

----------------------------------------------------------------------------
\* The handlers in every state of the service.  Each handler tests the global
\* itself (`if not model`), for a host that dispatches a request whatever
\* lifespan has done: before it has run, while it is at its yield, after it.

\* the values lifespan gives to (phase, model)
LifecycleStates ==
    {<<"created", None>>, <<"serving", Loaded>>, <<"stopped", None>>, <<"failed", None>>}

HandlerInit ==
    /\ \E st \in LifecycleStates : phase = st[1] /\ model = st[2]
    /\ req = NoReq
    /\ resp = NoResp
    /\ encoded = NoCall
    /\ similarity = NoScore
    /\ served = FALSE

HandlerNext ==
    \/ GetRoot
    \/ GetHealth
    \/ Embed
    \/ GetModelInfo
    \/ Similarity
    \/ Respond

HandlerSpec == HandlerInit /\ [][HandlerNext]_vars

----------------------------------------------------------------------------
\* Properties

IsEmbed == req.endpoint = "POST /api/v1/embed"
IsHealth == req.endpoint = "GET /health"
IsModelInfo == req.endpoint = "GET /api/v1/model-info"
IsSimilarity == req.endpoint = "POST /api/v1/similarity"

\* k tenths, in score units
Tenths(k) == (k * ScoreScale) \div 10

\* k tenths, in units of the reported similarity (four decimal places)
ReportedTenths(k) == k * 1000

\* position of an interpretation among the four ordered buckets
Rank(it) ==
    CASE it = "Very similar" -> 3
      [] it = "Similar" -> 2
      [] it = "Somewhat similar" -> 1
      [] it = "Not very similar" -> 0
      [] OTHER -> -1

\* C1: an embed request of N texts, 1 <= N <= 100, whose capability call
\* returned one vector per text, is answered with exactly N results, the i-th
\* carrying the label of the i-th text and the i-th returned vector, and
\* count = N.
C1_ResultsInInputOrder ==
    (/\ IsEmbed
     /\ Len(req.texts) >= 1
     /\ Len(req.texts) <= 100
     /\ encoded.outcome = "ok"
     /\ Len(encoded.ret) = Len(req.texts))
    => /\ resp.status = 200
       /\ Len(resp.body.embeddings) = Len(req.texts)
       /\ resp.body.count = Len(req.texts)
       /\ \A i \in 1..Len(req.texts) :
            /\ resp.body.embeddings[i].embedding = encoded.ret[i]
            /\ resp.body.embeddings[i].text
                 = IF Len(req.texts[i]) > 100
                   THEN SubSeq(req.texts[i], 1, 100) \o <<".", ".", ".">>
                   ELSE req.texts[i]

\* a full batch of 100 texts, two different texts alternating, was answered
C1_Witness ==
    /\ IsEmbed
    /\ resp.status = 200
    /\ Len(req.texts) = 100
    /\ req.texts[1] # req.texts[2]
    /\ encoded.ret[1] # encoded.ret[2]

\* C2: 0 texts is answered 400, 101 texts is answered 400, exactly 100 texts
\* is answered 200 when the call succeeds, and no rejected request reaches the
\* capability call.
C2_SizeLimitsAnswered400 ==
    IsEmbed
    => /\ Len(req.texts) = 0 => resp.status = 400
       /\ Len(req.texts) = 101 => resp.status = 400
       /\ (Len(req.texts) = 100 /\ encoded.outcome = "ok") => resp.status = 200
       /\ resp.status \in {400, 422} => encoded = NoCall

\* C3: while the global is None, /health reports model_loaded = FALSE and an
\* embed request of 1..100 texts is answered 503 without a capability call;
\* while it is set, /health reports model_loaded = TRUE.
C3_UnloadedReported ==
    /\ IsHealth => resp.body.model_loaded = (model # None)
    /\ (IsEmbed /\ model = None /\ Len(req.texts) >= 1 /\ Len(req.texts) <= 100)
       => (resp.status = 503 /\ encoded = NoCall)

\* a full batch reached the handler after shutdown and was answered 503
C3_Witness ==
    /\ IsEmbed
    /\ phase = "stopped"
    /\ model = None
    /\ Len(req.texts) = 100
    /\ resp.status = 503

\* C4: in a successful embed response the label of a text of more than 100
\* characters is its first 100 characters followed by "...", the label of a
\* shorter text is the text, and the capability was given the full texts.
C4_LabelTruncatedVectorFromFullText ==
    (IsEmbed /\ resp.status = 200)
    => /\ encoded.texts = req.texts
       /\ \A i \in 1..Len(req.texts) :
            LET text == req.texts[i]
                label == resp.body.embeddings[i].text
            IN  /\ Len(text) > 100 => label = SubSeq(text, 1, 100) \o <<".", ".", ".">>
                /\ Len(text) <= 100 => label = text
                /\ resp.body.embeddings[i].embedding.of = text

\* a text of 101 characters and one of exactly 100 were embedded together
C4_Witness ==
    /\ IsEmbed
    /\ resp.status = 200
    /\ Len(req.texts) >= 2
    /\ Len(req.texts[1]) = 101
    /\ Len(req.texts[2]) = 100
    /\ Len(resp.body.embeddings[1].text) = 103

\* C5: the score is classified by strictly-greater comparisons in order: above
\* 0.8, above 0.6, above 0.4, else the lowest bucket; a score equal to a
\* threshold falls in the lower bucket, every score has exactly one bucket,
\* and the bucket does not decrease as the score grows.
C5_StrictThresholds ==
    (IsSimilarity /\ resp.status = 200)
    => LET s == similarity
           it == resp.body.interpretation
       IN  /\ it = "Very similar" <=> s > Tenths(8)
           /\ it = "Similar" <=> (s <= Tenths(8) /\ s > Tenths(6))
           /\ it = "Somewhat similar" <=> (s <= Tenths(6) /\ s > Tenths(4))
           /\ it = "Not very similar" <=> s <= Tenths(4)
           /\ Rank(it) >= 0
           /\ \A s2 \in Scores :
                /\ s <= s2 => Rank(it) <= Rank(Interpretation(s2))
                /\ s2 <= s => Rank(Interpretation(s2)) <= Rank(it)

\* a score of exactly 0.8 was classified "Similar"
C5_Witness ==
    /\ IsSimilarity
    /\ resp.status = 200
    /\ similarity = Tenths(8)
    /\ resp.body.interpretation = "Similar"

\* C6: an embed request whose capability call raises is answered 500 and the
\* service keeps serving with the global unchanged; an embed request is
\* answered either 200 with a result for every text or an error without results.
C6_FailureIs500NoPartialBatch ==
    IsEmbed
    => /\ encoded.outcome = "raise"
          => (resp.status = 500 /\ phase = "serving" /\ model = Loaded)
       /\ \/ /\ resp.status = 200
             /\ Len(resp.body.embeddings) = Len(req.texts)
          \/ /\ resp.status # 200
             /\ DOMAIN resp.body = {"detail"}

\* the capability call of a full batch raised
C6_Witness ==
    /\ IsEmbed
    /\ Len(req.texts) = 100
    /\ encoded.outcome = "raise"
    /\ resp.status = 500

\* C7: a failing load leaves lifespan: the process stays out of the serving
\* phase for good, no handler runs, and the global stays None; serving is
\* entered only with the capability loaded.
C7_FailedLoadIsFatal ==
    /\ [](phase = "failed" => (model = None /\ ~served /\ req = NoReq))
    /\ [](phase = "serving" => model = Loaded)
    /\ [][phase = "failed" => (phase' = "failed" /\ model' = None /\ ~served')]_vars

\* the load failed
C7_Witness == phase = "failed" /\ model = None

\* C8: the global changes only from None to loaded in startup and from loaded
\* to None in shutdown; no handler changes it, and no handler runs before
\* startup has completed.
C8_OnlyLifespanWritesModel ==
    [][/\ model' # model
          => \/ /\ phase = "created" /\ phase' = "serving"
                /\ model = None /\ model' = Loaded
             \/ /\ phase = "serving" /\ phase' = "stopped"
                /\ model = Loaded /\ model' = None
       /\ phase' # phase
          => /\ <<phase, phase'>> \in {<<"created", "serving">>, <<"created", "failed">>,
                                       <<"serving", "stopped">>}
             /\ UNCHANGED <<req, resp, encoded, similarity, served>>
       /\ (req' # req \/ served' # served)
          => (phase = "serving" /\ model = Loaded /\ UNCHANGED <<model, phase>>)]_vars

\* requests were served between startup and shutdown, and shutdown cleared
\* the global
C8_Witness == phase = "stopped" /\ model = None /\ served

\* C9, as stated: model-info returns the constant document in every state.
C9_DocumentInEveryState == IsModelInfo => resp = ModelInfoDocument

\* C9, amended: model-info returns the same constant document whenever the
\* global is set, whatever was requested before, and 503 whenever it is None.
C9_DocumentWhenLoaded ==
    IsModelInfo
    => /\ model # None
          => /\ resp.status = 200
             /\ resp.body.model_name = "sentence-transformers/all-MiniLM-L6-v2"
             /\ resp.body.embedding_dimension = 384
             /\ resp.body.max_sequence_length = 256
             /\ resp = ModelInfoDocument
       /\ model = None
          => resp = [status |-> 503, body |-> [detail |-> "Model not loaded"]]

\* model-info was requested while the global was None
C9_Witness == IsModelInfo /\ model = None /\ served /\ resp.status = 503

\* C10, as stated: the interpretation is decided by the reported (rounded)
\* similarity: "Very similar" exactly when it is > 0.8, and so on.
C10_InterpretationOfReported ==
    (IsSimilarity /\ resp.status = 200)
    => LET r == resp.body.similarity
           it == resp.body.interpretation
       IN  /\ it = "Very similar" <=> r > ReportedTenths(8)
           /\ it = "Similar" <=> (r > ReportedTenths(6) /\ r <= ReportedTenths(8))
           /\ it = "Somewhat similar" <=> (r > ReportedTenths(4) /\ r <= ReportedTenths(6))
           /\ it = "Not very similar" <=> r <= ReportedTenths(4)

\* C10, amended: the interpretation is decided by the unrounded score, so it
\* agrees with the reported similarity except at a reported value equal to a
\* threshold, where either neighbouring bucket may appear.
C10_InterpretationUpToRounding ==
    (IsSimilarity /\ resp.status = 200)
    => LET r == resp.body.similarity
           it == resp.body.interpretation
       IN  /\ r > ReportedTenths(8) => it = "Very similar"
           /\ it = "Very similar" => r >= ReportedTenths(8)
           /\ (r > ReportedTenths(6) /\ r < ReportedTenths(8)) => it = "Similar"
           /\ it = "Similar" => (r >= ReportedTenths(6) /\ r <= ReportedTenths(8))
           /\ (r > ReportedTenths(4) /\ r < ReportedTenths(6)) => it = "Somewhat similar"
           /\ it = "Somewhat similar"
              => (r >= ReportedTenths(4) /\ r <= ReportedTenths(6))
           /\ r < ReportedTenths(4) => it = "Not very similar"
           /\ it = "Not very similar" => r <= ReportedTenths(4)
           /\ Rank(it) >= 0

\* a score just above 0.8 was reported as 0.8 and interpreted "Very similar"
C10_Witness ==
    /\ IsSimilarity
    /\ resp.status = 200
    /\ similarity > Tenths(8)
    /\ resp.body.similarity = ReportedTenths(8)
    /\ resp.body.interpretation = "Very similar"

====
